---- MODULE Spec2Model ----
(***************************************************************************)
(* yatl: a Timer that records a start instant (std::time::SystemTime) and  *)
(* lap durations measured from it, and duration_to_human_string, which     *)
(* renders a Duration with an auto-scaled unit.                            *)
(*                                                                         *)
(* A SystemTime reading and a Duration are both kept as std keeps them: a  *)
(* pair of whole seconds and sub-second nanoseconds (0 .. 999999999).      *)
(* The system clock is the environment: it advances while the caller       *)
(* sleeps and, being the wall clock, it can also be set backwards.         *)
(***************************************************************************)
EXTENDS Integers, Sequences, FiniteSets, TLC

VARIABLES
    now,        \* what SystemTime::now() reads
    started,    \* Timer.started : Option<SystemTime>
    vecs,       \* the Vec<Duration> objects alive, by owner
    held,       \* which Vec the caller holds as the value of laps()
    ret,        \* the last event: the call made and what it returned
    firstStart, \* history: the reading captured by the first successful start()
    returned,   \* history: the durations returned by successful lap() calls
    lapAt,      \* history: the clock reading at each successful lap() call
    lapLog,     \* history: the last two lap() calls (reading, result, delay before)
    slept       \* history: the caller slept since the last lap() call

vars == <<now, started, vecs, held, ret, firstStart, returned, lapAt, lapLog, slept>>

\* Most laps a Timer records in the model.
MaxLaps == 2

----------------------------------------------------------------------------
(* Option and Result *)

None == <<>>
Some(v) == <<v>>

Ok(v) == [ok |-> TRUE, val |-> v]
Err(e) == [ok |-> FALSE, err |-> e]

Unit == "()"

----------------------------------------------------------------------------
(* SystemTime and Duration: seconds and sub-second nanoseconds *)

Time(s, n) == [secs |-> s, nanos |-> n]

\* a <= b
TimeLe(a, b) == a.secs < b.secs \/ (a.secs = b.secs /\ a.nanos <= b.nanos)

\* a - b for b <= a, borrowing one second when the nanoseconds underflow
TimeSub(a, b) ==
    IF a.nanos >= b.nanos
    THEN Time(a.secs - b.secs, a.nanos - b.nanos)
    ELSE Time(a.secs - b.secs - 1, a.nanos + 1000000000 - b.nanos)

\* elapsed() that returns the distance between the readings, whichever is later
elapsed_abs(s, t) == IF TimeLe(s, t) THEN Ok(TimeSub(t, s)) ELSE Ok(TimeSub(s, t))

\* elapsed() with the two readings exchanged
elapsed_swapped(s, t) == IF TimeLe(t, s) THEN Ok(TimeSub(s, t)) ELSE Err(TimeSub(t, s))

\* elapsed() that fails unless the clock reads strictly later
elapsed_strict(s, t) ==
    IF TimeLe(s, t) /\ s # t THEN Ok(TimeSub(t, s)) ELSE Err(TimeSub(s, t))

\* s.elapsed(): SystemTime::now().duration_since(s). Ok(now - s) when s is
\* not later than now, otherwise Err(SystemTimeError(s - now)).
elapsed(s, t) == IF TimeLe(s, t) THEN Ok(TimeSub(t, s)) ELSE Err(TimeSub(s, t))

\* The readings the system clock takes in the model.
ClockReadings ==
    { Time(10, 999999500),
      Time(11, 1000),
      Time(11, 250000000),
      Time(75, 0) }

----------------------------------------------------------------------------
(* duration_to_human_string *)

\* Duration::as_nanos(), as_micros(), as_millis(): the u128 counts
\* secs * 10^9 + nanos, secs * 10^6 + nanos / 10^3, secs * 10^3 + nanos / 10^6.
\* A count can exceed a machine integer of the checker (2 hours are 7.2 * 10^9
\* microseconds), so each is kept as its two base-10^9 limbs, hi * 10^9 + lo.
as_nanos(d) == [hi |-> d.secs, lo |-> d.nanos]

\* as_micros() that rounds the sub-microsecond part to the nearest microsecond
as_micros_rounded(d) ==
    LET m == (d.secs % 1000) * 1000000 + (d.nanos + 500) \div 1000
    IN  [hi |-> d.secs \div 1000 + m \div 1000000000, lo |-> m % 1000000000]

as_micros(d) ==
    [hi |-> d.secs \div 1000, lo |-> (d.secs % 1000) * 1000000 + d.nanos \div 1000]
as_millis(d) ==
    [hi |-> d.secs \div 1000000, lo |-> (d.secs % 1000000) * 1000 + d.nanos \div 1000000]

\* Duration::as_secs(): a u64
as_secs(d) == d.secs

\* n < k for a limbed n and k <= 10^9
U128Lt(n, k) == n.hi = 0 /\ n.lo < k

\* the last k decimal digits of n, zero padded
RECURSIVE Digits(_, _)
Digits(n, k) == IF k = 0 THEN "" ELSE Digits(n \div 10, k - 1) \o ToString(n % 10)

\* "{}" of a limbed u128
U128Display(n) == IF n.hi = 0 THEN ToString(n.lo) ELSE ToString(n.hi) \o Digits(n.lo, 9)

\* the comparisons made with <= instead of <
duration_to_human_string_le(duration) ==
    IF U128Lt(as_nanos(duration), 1001)
    THEN U128Display(as_nanos(duration)) \o "ns"
    ELSE IF U128Lt(as_micros(duration), 1001)
    THEN U128Display(as_micros(duration)) \o "us"
    ELSE IF U128Lt(as_millis(duration), 1001)
    THEN U128Display(as_millis(duration)) \o "ms"
    ELSE IF as_secs(duration) <= 60
    THEN ToString(as_secs(duration)) \o "s"
    ELSE ToString(as_secs(duration) \div 60) \o "m"

\* the seconds branch taken below 100 seconds instead of 60
duration_to_human_string_100s(duration) ==
    IF U128Lt(as_nanos(duration), 1000)
    THEN U128Display(as_nanos(duration)) \o "ns"
    ELSE IF U128Lt(as_micros(duration), 1000)
    THEN U128Display(as_micros(duration)) \o "us"
    ELSE IF U128Lt(as_millis(duration), 1000)
    THEN U128Display(as_millis(duration)) \o "ms"
    ELSE IF as_secs(duration) < 100
    THEN ToString(as_secs(duration)) \o "s"
    ELSE ToString(as_secs(duration) \div 60) \o "m"

duration_to_human_string(duration) ==
    IF U128Lt(as_nanos(duration), 1000)
    THEN U128Display(as_nanos(duration)) \o "ns"
    ELSE IF U128Lt(as_micros(duration), 1000)
    THEN U128Display(as_micros(duration)) \o "us"
    ELSE IF U128Lt(as_millis(duration), 1000)
    THEN U128Display(as_millis(duration)) \o "ms"
    ELSE IF as_secs(duration) < 60
    THEN ToString(as_secs(duration)) \o "s"
    ELSE ToString(as_secs(duration) \div 60) \o "m"

----------------------------------------------------------------------------
(* "{:?}" of the SystemTimeError that s.elapsed() returns *)

\* the digits of a fractional part, trailing zeros dropped
RECURSIVE FracDigits(_, _)
FracDigits(frac, divisor) ==
    IF frac = 0 THEN ""
    ELSE ToString(frac \div divisor) \o FracDigits(frac % divisor, divisor \div 10)

fmt_decimal(int, frac, divisor, unit) ==
    ToString(int) \o (IF frac = 0 THEN "" ELSE "." \o FracDigits(frac, divisor)) \o unit

DurationDebug(d) ==
    IF d.secs > 0 THEN fmt_decimal(d.secs, d.nanos, 100000000, "s")
    ELSE IF d.nanos >= 1000000
    THEN fmt_decimal(d.nanos \div 1000000, d.nanos % 1000000, 100000, "ms")
    ELSE IF d.nanos >= 1000
    THEN fmt_decimal(d.nanos \div 1000, d.nanos % 1000, 100, "µs")
    ELSE fmt_decimal(d.nanos, 0, 1, "ns")

InternalError(e) == "Internal Error: " \o "SystemTimeError(" \o DurationDebug(e) \o ")"

----------------------------------------------------------------------------
(* Timer *)

\* The Vec owned by the Timer (self.laps) and the Vec a clone() allocates.
SelfLaps == "self.laps"
Cloned == "cloned"
NoVec == "none"

laps == vecs[SelfLaps]

\* the Timer as a value
self == [started |-> started, laps |-> laps]

\* new() whose Vec starts with a default Duration in it
new_one_lap == [started |-> None, laps |-> <<Time(0, 0)>>]

new == [started |-> None, laps |-> <<>>]

\* start() that captures the clock again on a Timer already started
start_recapture(timer, t) ==
    [timer |-> [timer EXCEPT !.started = Some(t)],
     res |-> IF timer.started = None THEN Ok(Unit) ELSE Err("Timer already started!")]

\* Timer::start
start(timer, t) ==
    IF timer.started = None
    THEN [timer |-> [timer EXCEPT !.started = Some(t)], res |-> Ok(Unit)]
    ELSE [timer |-> timer, res |-> Err("Timer already started!")]

\* Timer::start_time
start_time(timer) ==
    IF timer.started # None
    THEN Ok(timer.started[1])
    ELSE Err("Timer not started!")

\* lap() that records a zero lap on a Timer that was never started
lap_unstarted_zero(timer, t) ==
    LET s == IF timer.started # None THEN timer.started[1] ELSE t
        e == elapsed(s, t)
    IN  IF e.ok
        THEN [timer |-> [timer EXCEPT !.laps = Append(@, e.val)], res |-> Ok(e.val)]
        ELSE [timer |-> timer, res |-> Err(InternalError(e.err))]

\* lap() that drops the start instant when the clock is behind it
lap_reset_on_error(timer, t) ==
    IF timer.started # None
    THEN LET e == elapsed(timer.started[1], t)
         IN  IF e.ok
             THEN [timer |-> [timer EXCEPT !.laps = Append(@, e.val)], res |-> Ok(e.val)]
             ELSE [timer |-> [timer EXCEPT !.started = None],
                   res |-> Err(InternalError(e.err))]
    ELSE [timer |-> timer, res |-> Err("Timer not started!")]

\* lap() that measures from the previous lap: it moves `started` forward
lap_incremental(timer, t) ==
    IF timer.started # None
    THEN LET e == elapsed(timer.started[1], t)
         IN  IF e.ok
             THEN [timer |-> [started |-> Some(t), laps |-> Append(timer.laps, e.val)],
                   res |-> Ok(e.val)]
             ELSE [timer |-> timer, res |-> Err(InternalError(e.err))]
    ELSE [timer |-> timer, res |-> Err("Timer not started!")]

\* lap() that returns the duration without recording it
lap_no_push(timer, t) ==
    IF timer.started # None
    THEN LET e == elapsed(timer.started[1], t)
         IN  IF e.ok
             THEN [timer |-> timer, res |-> Ok(e.val)]
             ELSE [timer |-> timer, res |-> Err(InternalError(e.err))]
    ELSE [timer |-> timer, res |-> Err("Timer not started!")]

\* lap() that inserts at the front of `laps`
lap_push_front(timer, t) ==
    IF timer.started # None
    THEN LET e == elapsed(timer.started[1], t)
         IN  IF e.ok
             THEN [timer |-> [timer EXCEPT !.laps = <<e.val>> \o @], res |-> Ok(e.val)]
             ELSE [timer |-> timer, res |-> Err(InternalError(e.err))]
    ELSE [timer |-> timer, res |-> Err("Timer not started!")]

\* lap() that clamps to a zero lap when the clock is behind the start
lap_clamp_to_zero(timer, t) ==
    IF timer.started # None
    THEN LET e == elapsed(timer.started[1], t)
             d == IF e.ok THEN e.val ELSE Time(0, 0)
         IN  [timer |-> [timer EXCEPT !.laps = Append(@, d)], res |-> Ok(d)]
    ELSE [timer |-> timer, res |-> Err("Timer not started!")]

\* Timer::lap
lap(timer, t) ==
    IF timer.started # None
    THEN LET e == elapsed(timer.started[1], t)
         IN  IF e.ok
             THEN [timer |-> [timer EXCEPT !.laps = Append(@, e.val)], res |-> Ok(e.val)]
             ELSE [timer |-> timer, res |-> Err(InternalError(e.err))]
    ELSE [timer |-> timer, res |-> Err("Timer not started!")]

\* laps() that hands out the Timer's own Vec
Vec_alias(heap, src) == [heap |-> heap, ref |-> src]

\* Vec::clone: a new Vec with the elements of the Vec at src
Vec_clone(heap, src) == [heap |-> [heap EXCEPT ![Cloned] = heap[src]], ref |-> Cloned]

\* the mapped strings collected in reverse
RECURSIVE iter_map_collect_rev(_)
iter_map_collect_rev(v) ==
    IF v = <<>> THEN <<>>
    ELSE iter_map_collect_rev(Tail(v)) \o <<duration_to_human_string(Head(v))>>

\* self.laps.iter().map(|d| duration_to_human_string(d)).collect()
RECURSIVE iter_map_collect(_)
iter_map_collect(v) ==
    IF v = <<>> THEN <<>>
    ELSE <<duration_to_human_string(Head(v))>> \o iter_map_collect(Tail(v))

\* Timer::laps_formatted
laps_formatted(timer) == iter_map_collect(timer.laps)

----------------------------------------------------------------------------
(* The state machine: one Timer, its caller and the system clock *)

Event(op, res) == [op |-> op, res |-> res]

Last2(s) == IF Len(s) > 2 THEN Tail(s) ELSE s

Init ==
    /\ now \in ClockReadings
    /\ started = new.started
    /\ vecs = [a \in {SelfLaps, Cloned} |-> new.laps]
    /\ held = NoVec
    /\ ret = Event("new", Ok(Unit))
    /\ firstStart = None
    /\ returned = <<>>
    /\ lapAt = <<>>
    /\ lapLog = <<>>
    /\ slept = FALSE

Timer_start ==
    LET r == start(self, now) IN
    /\ started' = r.timer.started
    /\ vecs' = [vecs EXCEPT ![SelfLaps] = r.timer.laps]
    /\ ret' = Event("start", r.res)
    /\ firstStart' = IF r.res.ok /\ firstStart = None THEN Some(now) ELSE firstStart
    /\ slept' = IF r.res.ok THEN FALSE ELSE slept
    /\ UNCHANGED <<now, held, returned, lapAt, lapLog>>

Timer_start_time ==
    /\ ret' = Event("start_time", start_time(self))
    /\ UNCHANGED <<now, started, vecs, held, firstStart, returned, lapAt, lapLog, slept>>

Timer_lap ==
    LET r == lap(self, now) IN
    /\ r.res.ok => Len(laps) < MaxLaps
    /\ started' = r.timer.started
    /\ vecs' = [vecs EXCEPT ![SelfLaps] = r.timer.laps]
    /\ ret' = Event("lap", r.res)
    /\ returned' = IF r.res.ok THEN Append(returned, r.res.val) ELSE returned
    /\ lapAt' = IF r.res.ok THEN Append(lapAt, now) ELSE lapAt
    /\ lapLog' = Last2(Append(lapLog, [at |-> now, res |-> r.res, slept |-> slept]))
    /\ slept' = FALSE
    /\ UNCHANGED <<now, held, firstStart>>

\* laps() that moves the Vec out of the Timer instead of cloning it
Timer_laps_take ==
    /\ vecs' = [vecs EXCEPT ![Cloned] = vecs[SelfLaps], ![SelfLaps] = <<>>]
    /\ held' = Cloned
    /\ ret' = Event("laps", Ok(vecs[SelfLaps]))
    /\ UNCHANGED <<now, started, firstStart, returned, lapAt, lapLog, slept>>

Timer_laps ==
    LET r == Vec_clone(vecs, SelfLaps) IN
    /\ vecs' = r.heap
    /\ held' = r.ref
    /\ ret' = Event("laps", Ok(r.heap[r.ref]))
    /\ UNCHANGED <<now, started, firstStart, returned, lapAt, lapLog, slept>>

Timer_laps_formatted ==
    /\ ret' = Event("laps_formatted", Ok(laps_formatted(self)))
    /\ UNCHANGED <<now, started, vecs, held, firstStart, returned, lapAt, lapLog, slept>>

\* The caller changes the Vec that laps() returned to it: push or clear.
Caller_mutate ==
    /\ held # NoVec
    /\ \/ /\ Len(vecs[held]) < MaxLaps
          /\ vecs' = [vecs EXCEPT ![held] = Append(@, Time(0, 0))]
       \/ /\ vecs[held] # <<>>
          /\ vecs' = [vecs EXCEPT ![held] = <<>>]
    /\ ret' = Event("caller_mutate", Ok(Unit))
    /\ UNCHANGED <<now, started, held, firstStart, returned, lapAt, lapLog, slept>>

\* thread::sleep: real time passes and the clock reads later.
Sleep ==
    /\ \E t \in ClockReadings : t # now /\ TimeLe(now, t) /\ now' = t
    /\ slept' = TRUE
    /\ ret' = Event("sleep", Ok(Unit))
    /\ UNCHANGED <<started, vecs, held, firstStart, returned, lapAt, lapLog>>

\* The system clock is set backwards (SystemTime is not monotonic).
Clock_set_back ==
    /\ \E t \in ClockReadings : t # now /\ TimeLe(t, now) /\ now' = t
    /\ ret' = Event("clock_set_back", Ok(Unit))
    /\ UNCHANGED <<started, vecs, held, firstStart, returned, lapAt, lapLog, slept>>

Next ==
    \/ Timer_start
    \/ Timer_start_time
    \/ Timer_lap
    \/ Timer_laps
    \/ Timer_laps_formatted
    \/ Caller_mutate
    \/ Sleep
    \/ Clock_set_back

Spec == Init /\ [][Next]_vars

----------------------------------------------------------------------------
(* duration_to_human_string called on its own *)

\* The durations it is called with: every pairing of these whole seconds and
\* sub-second nanoseconds, which holds the doc-test values, both sides of every
\* unit threshold, and two hours.
SecsSamples == {0, 1, 2, 59, 60, 61, 119, 120, 780, 3599, 7200}
NanosSamples ==
    {0, 1, 12, 999, 1000, 1001, 13674, 999999, 1000000, 45674432,
     746859738, 897563728, 999999999}
Durations == {Time(s, n) : s \in SecsSamples, n \in NanosSamples}

Call(op, arg, res) == [op |-> op, arg |-> arg, res |-> res]

Format ==
    /\ \E d \in Durations :
          ret' = Call("duration_to_human_string", d, Ok(duration_to_human_string(d)))
    /\ UNCHANGED <<now, started, vecs, held, firstStart, returned, lapAt, lapLog, slept>>

NextFmt == Format

SpecFmt == Init /\ [][NextFmt]_vars

----------------------------------------------------------------------------
(* Properties *)

NotStartedMsg == "Timer not started!"
AlreadyStartedMsg == "Timer already started!"

\* a lap() call that found the Timer started
OnStarted(call) == call.res.ok \/ call.res.err # NotStartedMsg

IsDuration(d) == d.secs >= 0 /\ d.nanos >= 0 /\ d.nanos < 1000000000

\* C1: a start() on a Timer that is already started fails with "already
\* started" and changes neither `started` nor `laps`; start_time() goes on
\* returning the reading the first successful start() captured, wherever the
\* clock stands by then.
C1_SecondStartRejected ==
    [][ /\ (ret'.op = "start" /\ started # None) =>
              /\ ~ret'.res.ok
              /\ ret'.res.err = AlreadyStartedMsg
              /\ started' = started
              /\ laps' = laps
        /\ (ret'.op = "start_time" /\ firstStart # None) =>
              /\ ret'.res.ok
              /\ ret'.res.val = firstStart[1]
      ]_vars

\* a second start() has just failed, at a later clock reading than the first
C1_Witness ==
    /\ ret.op = "start"
    /\ ~ret.res.ok
    /\ started # None
    /\ started[1] # now
    /\ TimeLe(started[1], now)

\* C2: while no start() has succeeded, start_time() and lap() fail with "not
\* started", and the Timer stays empty: no lap recorded, `started` absent.
C2_NeverStartedFails ==
    (firstStart = None /\ ret.op \in {"start_time", "lap"}) =>
        /\ ~ret.res.ok
        /\ ret.res.err = NotStartedMsg
        /\ laps = <<>>
        /\ started = None

\* lap() was called twice on a Timer that was never started
C2_Witness ==
    /\ firstStart = None
    /\ ret.op = "lap"
    /\ Len(lapLog) = 2

\* C3: `started` changes only in a successful start(), from absent to
\* present; once present it keeps its value through every later call and clock
\* movement, and every start_time() succeeds with that value.
C3_StartedSetOnce ==
    [][ /\ started # None => started' = started
        /\ started' # started => (ret'.op = "start" /\ ret'.res.ok)
        /\ (ret'.op = "start_time" /\ started # None) =>
              (ret'.res.ok /\ ret'.res.val = started[1])
      ]_vars

\* start_time() succeeded after laps were recorded and the clock was set back
\* to before the start
C3_Witness ==
    /\ ret.op = "start_time"
    /\ ret.res.ok
    /\ laps # <<>>
    /\ ~TimeLe(started[1], now)

\* C4 as stated: after a successful start(), two lap() calls in a row with a
\* sleep between them both succeed, and the second returns at least what the
\* first returned.
C4_LapsNonDecreasing ==
    (Len(lapLog) = 2 /\ OnStarted(lapLog[1]) /\ lapLog[2].slept) =>
        /\ lapLog[1].res.ok
        /\ lapLog[2].res.ok
        /\ TimeLe(lapLog[1].res.val, lapLog[2].res.val)

\* C4 amended: the same, provided the system clock was not behind when the laps
\* were taken: it read no earlier than `started` at the first lap() and no
\* earlier at the second lap() than at the first.
C4_LapsNonDecreasingOnForwardClock ==
    ( /\ Len(lapLog) = 2
      /\ OnStarted(lapLog[1])
      /\ lapLog[2].slept
      /\ TimeLe(firstStart[1], lapLog[1].at)
      /\ TimeLe(lapLog[1].at, lapLog[2].at) ) =>
        /\ lapLog[1].res.ok
        /\ lapLog[2].res.ok
        /\ TimeLe(lapLog[1].res.val, lapLog[2].res.val)

\* two laps in a row on a started Timer, a sleep between them, the clock
\* reading later at the second than at the first
C4_Witness ==
    /\ Len(lapLog) = 2
    /\ OnStarted(lapLog[1])
    /\ lapLog[2].slept
    /\ TimeLe(started[1], lapLog[1].at)
    /\ TimeLe(lapLog[1].at, lapLog[2].at)
    /\ lapLog[1].at # lapLog[2].at
    /\ lapLog[1].at # started[1]
    /\ ret.op = "lap"

\* C5: `laps`, and what laps() returns, is the sequence of the durations that
\* the successful lap() calls returned, in call order; a failed lap() adds
\* nothing.
C5_LapsAreReturnedDurations ==
    /\ laps = returned
    /\ ret.op = "laps" => ret.res.val = returned
    /\ (ret.op = "lap" /\ ret.res.ok) => ret.res.val = laps[Len(laps)]

\* laps() returned two different durations, after a lap() call that failed
C5_Witness ==
    /\ ret.op = "laps"
    /\ Len(ret.res.val) = 2
    /\ ret.res.val[1] # ret.res.val[2]
    /\ Len(lapLog) = 2
    /\ ~lapLog[2].res.ok

\* C6: `laps` only grows at its end: a step either leaves it as it is or is a
\* successful lap() that appends the one duration it returns; every successful
\* lap() appends.
C6_LapsAppendOnly ==
    [][ /\ \/ laps' = laps
           \/ /\ ret'.op = "lap"
              /\ ret'.res.ok
              /\ laps' = Append(laps, ret'.res.val)
        /\ (ret'.op = "lap" /\ ret'.res.ok) => Len(laps') = Len(laps) + 1
      ]_vars

\* a second, different duration was appended behind the first
C6_Witness ==
    /\ ret.op = "lap"
    /\ ret.res.ok
    /\ Len(laps) = 2
    /\ laps[1] # laps[2]

\* C7: every entry of `laps` is a non-negative duration, the clock reading at
\* its lap() call minus `started` (not minus the reading at the previous lap).
C7_LapsMeasuredFromStart ==
    /\ Len(lapAt) = Len(laps)
    /\ \A i \in 1..Len(laps) :
          /\ started # None
          /\ IsDuration(laps[i])
          /\ TimeLe(started[1], lapAt[i])
          /\ laps[i] = TimeSub(lapAt[i], started[1])

\* two laps at different readings after the start: measuring the second from
\* the first would give another value
C7_Witness ==
    /\ Len(laps) = 2
    /\ lapAt[1] # started[1]
    /\ TimeLe(lapAt[1], lapAt[2])
    /\ laps[2] # TimeSub(lapAt[2], lapAt[1])

\* C8: lap() on a started Timer while the clock reads earlier than `started`
\* fails with the internal error, which is not the "not started" error, and
\* leaves `laps` and `started` alone; lap() on a started Timer at a reading at
\* or after `started` succeeds, also after such a failure.
C8_ClockBehindStartIsInternalError ==
    [][ (ret'.op = "lap" /\ started # None) =>
           IF TimeLe(started[1], now)
           THEN ret'.res.ok
           ELSE /\ ~ret'.res.ok
                /\ ret'.res.err = InternalError(TimeSub(started[1], now))
                /\ ret'.res.err # NotStartedMsg
                /\ laps' = laps
                /\ started' = started
      ]_vars

\* a lap() failed on a started Timer and the next lap() succeeded
C8_Witness ==
    /\ Len(lapLog) = 2
    /\ ~lapLog[1].res.ok
    /\ OnStarted(lapLog[1])
    /\ lapLog[2].res.ok
    /\ ret.op = "lap"

\* C9: the Vec that laps() returns holds the laps at the time of the call;
\* later lap() calls do not change it, and the caller changing it does not
\* change the Timer's `laps`.
C9_LapsReturnsSnapshot ==
    [][ /\ ret'.op = "laps" => (held' # NoVec /\ vecs'[held'] = laps /\ laps' = laps)
        /\ (ret'.op = "lap" /\ held # NoVec) => vecs'[held] = vecs[held]
        /\ ret'.op = "caller_mutate" => (laps' = laps /\ vecs'[held] # vecs[held])
      ]_vars

\* a lap was recorded after laps() returned, and the returned Vec is shorter
C9_Witness ==
    /\ held # NoVec
    /\ ret.op = "lap"
    /\ ret.res.ok
    /\ Len(vecs[held]) = 1
    /\ Len(laps) = 2

\* C10: laps_formatted() is as long as `laps`, and its i-th string is
\* duration_to_human_string of the i-th lap.
C10_FormattedMatchesLaps ==
    ret.op = "laps_formatted" =>
        /\ ret.res.ok
        /\ Len(ret.res.val) = Len(laps)
        /\ \A i \in 1..Len(laps) : ret.res.val[i] = duration_to_human_string(laps[i])

\* laps_formatted() returned two strings in different units
C10_Witness ==
    /\ ret.op = "laps_formatted"
    /\ Len(laps) = 2
    /\ ret.res.val[1] = "1us"
    /\ ret.res.val[2] = "250ms"

\* C11: duration_to_human_string returns a string for every duration, and
\* for n nanoseconds it is "{n}ns" if n < 10^3, else "{n div 10^3}us" if
\* n < 10^6, else "{n div 10^6}ms" if n < 10^9, else "{n div 10^9}s" if
\* n div 10^9 < 60, else "{(n div 10^9) div 60}m", the divisions truncating.
\* With n = secs * 10^9 + nanos and nanos < 10^9: n < 10^9 exactly when
\* secs = 0, and n div 10^9 = secs.
C11_TruncatingUnitScale ==
    ret.op = "duration_to_human_string" =>
        LET d == ret.arg
            out == ret.res.val
        IN  /\ ret.res.ok
            /\ out = IF d.secs = 0 /\ d.nanos < 1000
                     THEN ToString(d.nanos) \o "ns"
                     ELSE IF d.secs = 0 /\ d.nanos < 1000000
                     THEN ToString(d.nanos \div 1000) \o "us"
                     ELSE IF d.secs = 0
                     THEN ToString(d.nanos \div 1000000) \o "ms"
                     ELSE IF d.secs < 60
                     THEN ToString(d.secs) \o "s"
                     ELSE ToString(d.secs \div 60) \o "m"
            /\ d = Time(0, 12) => out = "12ns"
            /\ d = Time(0, 13674) => out = "13us"
            /\ d = Time(0, 45674432) => out = "45ms"
            /\ d = Time(2, 746859738) => out = "2s"
            /\ d = Time(780, 897563728) => out = "13m"

\* 13674 ns was formatted, a value that rounding to the nearest would turn
\* into 14 microseconds
C11_Witness ==
    /\ ret.op = "duration_to_human_string"
    /\ ret.arg = Time(0, 13674)
    /\ ret.res.val = "13us"

\* C12: at each threshold the coarser unit takes over, and one nanosecond
\* below it the finer unit still holds.
C12_ThresholdsRollOver ==
    ret.op = "duration_to_human_string" =>
        LET d == ret.arg
            out == ret.res.val
        IN  /\ d = Time(0, 999) => out = "999ns"
            /\ d = Time(0, 1000) => out = "1us"
            /\ d = Time(0, 999999) => out = "999us"
            /\ d = Time(0, 1000000) => out = "1ms"
            /\ d = Time(0, 999999999) => out = "999ms"
            /\ d = Time(1, 0) => out = "1s"
            /\ d = Time(59, 999999999) => out = "59s"
            /\ d = Time(60, 0) => out = "1m"

\* exactly 60 seconds was formatted
C12_Witness ==
    /\ ret.op = "duration_to_human_string"
    /\ ret.arg = Time(60, 0)
    /\ ret.res.val = "1m"

\* C13: start_time(), laps() and laps_formatted() change neither `started`
\* nor `laps`, whether they return Ok or Err.
C13_ReadsHaveNoSideEffects ==
    [][ ret'.op \in {"start_time", "laps", "laps_formatted"} =>
            (started' = started /\ laps' = laps) ]_vars

\* laps() has just returned two recorded laps and the Timer still has them
C13_Witness ==
    /\ ret.op = "laps"
    /\ Len(ret.res.val) = 2
    /\ laps = ret.res.val
    /\ started # None

\* the first lap() after a successful start(), with a sleep in between
FirstLapAfterDelay ==
    /\ ret.op = "lap"
    /\ lapLog # <<>>
    /\ LET k == Len(lapLog)
       IN  /\ OnStarted(lapLog[k])
           /\ lapLog[k].slept
           /\ k = 1 \/ ~OnStarted(lapLog[k - 1])

\* C14 as stated: the first lap() after a successful start() and a sleep
\* succeeds and returns more than zero.
C14_LapAfterDelayPositive ==
    FirstLapAfterDelay => (ret.res.ok /\ ret.res.val # Time(0, 0))

\* C14 amended: the same, provided the system clock reads later than `started`
\* when lap() is called (it was not set back to the start instant or before it).
C14_LapAfterDelayPositiveOnForwardClock ==
    ( /\ FirstLapAfterDelay
      /\ TimeLe(firstStart[1], now)
      /\ now # firstStart[1] ) =>
        (ret.res.ok /\ ret.res.val # Time(0, 0))

\* a first lap after a sleep, taken at a later reading than the start and
\* shorter than a second
C14_Witness ==
    /\ FirstLapAfterDelay
    /\ TimeLe(firstStart[1], now)
    /\ now # firstStart[1]
    /\ Len(laps) = 1
    /\ laps[1].secs = 0

\* C15: a Timer that holds a lap has been started; a new Timer holds no lap
\* and no start instant.
C15_LapsImplyStarted ==
    /\ laps # <<>> => started # None
    /\ ret.op = "new" => (started = None /\ laps = <<>>)

\* a lap() before the start failed and recorded nothing, a lap() after it
\* was recorded
C15_Witness ==
    /\ Len(lapLog) = 2
    /\ ~OnStarted(lapLog[1])
    /\ lapLog[2].res.ok
    /\ Len(laps) = 1
    /\ started # None

\* C16: lap() on a started Timer at the very clock reading that start()
\* captured succeeds, returns a zero duration and appends it.
C16_LapAtStartInstantIsZero ==
    [][ (ret'.op = "lap" /\ started # None /\ now = started[1]) =>
            /\ ret'.res.ok
            /\ ret'.res.val = Time(0, 0)
            /\ laps' = Append(laps, Time(0, 0))
      ]_vars

\* a zero lap was recorded behind a non-zero one: the clock came back to the
\* start instant
C16_Witness ==
    /\ ret.op = "lap"
    /\ ret.res.ok
    /\ now = started[1]
    /\ Len(laps) = 2
    /\ laps[1] # Time(0, 0)
    /\ laps[2] = Time(0, 0)

\* C17: the number printed stays in its unit's range: 0..999 ns, 1..999 us,
\* 1..999 ms, 1..59 s, and 1 or more minutes, without an upper limit (2 hours
\* print as "120m").
C17_NumberWithinUnitRange ==
    ret.op = "duration_to_human_string" =>
        /\ ret.res.val \in
              {ToString(q) \o "ns" : q \in 0..999}
              \cup {ToString(q) \o "us" : q \in 1..999}
              \cup {ToString(q) \o "ms" : q \in 1..999}
              \cup {ToString(q) \o "s" : q \in 1..59}
              \cup {ToString(q) \o "m" : q \in 1..(1 + ret.arg.secs)}
        /\ ret.arg = Time(7200, 0) => ret.res.val = "120m"

\* two hours were formatted
C17_Witness ==
    /\ ret.op = "duration_to_human_string"
    /\ ret.arg = Time(7200, 0)
    /\ ret.res.val = "120m"

====
